---------------------------- MODULE Spec2Model ----------------------------
(***************************************************************************)
(* ESP32 Soil Sentinel: the firmware of src/code/ESP32-Soil-Sentinel.ino   *)
(* as a state machine.  One sequential thread of control (setup, then      *)
(* loop forever) whose position is pc; the environment (buttons, sensors,  *)
(* the cloud's answer, the WiFi link) is drawn nondeterministically.       *)
(*                                                                         *)
(* millis() is an unsigned 32-bit counter.  It is kept as two 16-bit limbs *)
(* <<hi, lo>> so that all arithmetic on it is exact modulo 2^32.  The      *)
(* timer lastConnectionTime is a signed 32-bit long and is kept as an      *)
(* integer in -2^31 .. 2^31-1; the conversions between the two are the     *)
(* conversions the compiler inserts.                                       *)
(*                                                                         *)
(* Time passes in delay() and between two iterations of loop() that find   *)
(* nothing to do (a run of such iterations changes nothing but the clock   *)
(* and is taken as one iteration followed by idle time); the other         *)
(* statements take no time.                                                *)
(***************************************************************************)
EXTENDS Integers, Sequences, FiniteSets, TLC

(***************************************************************************)
(* Bounds of the exploration (not program constants).                      *)
(***************************************************************************)
\* loop() iterations explored after setup()
MaxTicks == 4

\* loop() iterations explored when the menu is left alone until the clock is
\* about to wrap
MaxWrapTicks == 5

(***************************************************************************)
(* Program constants.                                                      *)
(***************************************************************************)
postingInterval == 30000
MaxAttempts == 20

(***************************************************************************)
(* 32-bit arithmetic.                                                      *)
(***************************************************************************)
Base == 2^16

\* an unsigned long from a small non-negative integer
U32(n) == << (n \div Base) % Base, n % Base >>

\* unsigned long + unsigned long, modulo 2^32
U32Add(a, b) ==
  LET lo == a[2] + b[2]
  IN  << (a[1] + b[1] + (lo \div Base)) % Base, lo % Base >>

\* unsigned long - unsigned long, modulo 2^32
U32Sub(a, b) ==
  LET lo == a[2] - b[2]
  IN  << (a[1] - b[1] + (lo \div Base)) % Base, lo % Base >>

\* unsigned long > unsigned long
U32Gt(a, b) == a[1] > b[1] \/ (a[1] = b[1] /\ a[2] > b[2])

\* long -> unsigned long (the usual arithmetic conversion: value modulo 2^32)
LongToULong(x) == << (x \div Base) % Base, x % Base >>

\* unsigned long -> long (two's complement: values >= 2^31 become negative)
ULongToLong(u) ==
  IF u[1] >= Base \div 2 THEN (u[1] - Base) * Base + u[2]
                         ELSE u[1] * Base + u[2]

\* C++ a % b on int (the quotient truncates toward zero, so the remainder
\* takes the sign of a), for b > 0
CRem(a, b) == IF a >= 0 \/ a % b = 0 THEN a % b ELSE (a % b) - b

\* the largest int
IntMax == 2147483647

\* C++ a + b on int.  A sum outside the range of int is undefined
\* behaviour; the builds (-O0, -O2, -Os) wrap it round modulo 2^32.
IntAdd(a, b) ==
  IF b > 0 /\ a > IntMax - b
    THEN (a - IntMax - 1) + (b - IntMax - 1)
  ELSE IF b < 0 /\ a < (0 - IntMax - 1) - b
    THEN (a + IntMax + 1) + (b + IntMax + 1)
  ELSE a + b

(***************************************************************************)
(* The plant profiles.                                                     *)
(***************************************************************************)
\* The profile table.  The source ships a placeholder to be filled in; the
\* entries are the ones the README gives as examples.
plantProfiles ==
  << [name |-> "Basil",  drySoilMoisture |-> 2100, wetSoilMoisture |-> 1400, channelID |-> U32(1234567)],
     [name |-> "Tomato", drySoilMoisture |-> 2200, wetSoilMoisture |-> 1500, channelID |-> U32(7654321)],
     [name |-> "Plant Name", drySoilMoisture |-> 2160, wetSoilMoisture |-> 1440, channelID |-> U32(1111111)] >>

\* sizeof(plantProfiles) / sizeof(PlantProfile)
numPlants == Len(plantProfiles)

\* A read of plantProfiles[i] with i outside the array is undefined
\* behaviour.  It yields whatever the memory next to the array holds, taken
\* for a profile: any two int, any unsigned long and, for the name, either
\* a String with any text or an object that is no String (no buffer behind
\* it, or a length that is not its buffer's); or the program is aborted
\* while it copies the String that is none.
NamedStrays ==
  [ name : STRING,
    drySoilMoisture : (0 - 2147483647 - 1) .. 2147483647,
    wetSoilMoisture : (0 - 2147483647 - 1) .. 2147483647,
    channelID : (0 .. Base - 1) \X (0 .. Base - 1) ]

\* A name that is no String has no text of its own.  What a print of it or
\* of a concatenation with it puts out is then any text, not the literals
\* with a name between them (operator+ of WString drops what was
\* concatenated so far when an operand has no buffer): row is what
\* lcd.print writes (lines 174 and 196), status what ThingSpeak.setStatus
\* is given before the soil status, which line 252 appends last, line what
\* Serial.println writes (line 259).
NamelessStrays ==
  [ row : Seq(STRING), status : Seq(STRING), line : Seq(STRING),
    drySoilMoisture : (0 - 2147483647 - 1) .. 2147483647,
    wetSoilMoisture : (0 - 2147483647 - 1) .. 2147483647,
    channelID : (0 .. Base - 1) \X (0 .. Base - 1) ]

Nameless(p) == "row" \in DOMAIN p

StrayProfiles == NamedStrays \cup NamelessStrays

Abort == [ signal |-> "abort" ]

Aborts(p) == "signal" \in DOMAIN p

\* variant: the first profile whatever the index
ProfileAtFirst(i) == { plantProfiles[1] }

\* the outcomes of reading plantProfiles[i] (the array is indexed from 0):
\* the profile when i is inside the array, any outcome when it is not
ProfileAt(i) ==
  IF i \in 0 .. numPlants - 1
    THEN { plantProfiles[i + 1] }
    ELSE StrayProfiles \cup { Abort }

(***************************************************************************)
(* The display: two rows, each the text last written from its start.       *)
(***************************************************************************)
Blank == << >>
LcdClear == << Blank, Blank >>

(***************************************************************************)
(* Inputs.                                                                 *)
(***************************************************************************)
\* raw soil readings tried against profile p: both thresholds and their
\* outer neighbours
SoilInputs(p) ==
  { p.wetSoilMoisture - 1, p.wetSoilMoisture, p.drySoilMoisture,
    p.drySoilMoisture + 1 }

\* outcomes tried for a read of plantProfiles[i]: the profile when i is inside
\* the array; outside it the abort and four pieces of stray memory (all
\* zero; a name with thresholds above every reading and the largest channel
\* number; thresholds below every reading; a name that is no String, of
\* which nothing is put out: what is written starts at the literal after it)
ProfileReads(i) ==
  IF i \in 0 .. numPlants - 1
    THEN ProfileAt(i)
    ELSE { Abort,
           [ name |-> "", drySoilMoisture |-> 0, wetSoilMoisture |-> 0,
             channelID |-> U32(0) ],
           [ name |-> "Monitoring:", drySoilMoisture |-> 2147483647,
             wetSoilMoisture |-> 2147483647,
             channelID |-> << Base - 1, Base - 1 >> ],
           [ name |-> "?", drySoilMoisture |-> 0 - 1, wetSoilMoisture |-> 0 - 1,
             channelID |-> U32(1) ],
           [ row |-> << " " >>, status |-> << " - " >>, line |-> << >>,
             drySoilMoisture |-> 0, wetSoilMoisture |-> 0,
             channelID |-> U32(0) ] }

\* raw soil readings tried when plantProfiles[i] is the profile in use: those
\* of the profile, or the ends and the middle of the converter's range when
\* i is outside the array
SoilReadings(i) ==
  IF i \in 0 .. numPlants - 1 THEN SoilInputs(plantProfiles[i + 1])
                              ELSE { 0, 1800, 4095 }

\* levels of UP and DOWN during an iteration of the Monitoring mode, which
\* reads neither
ArrowInputs == { << FALSE, FALSE >>, << TRUE, FALSE >>, << FALSE, TRUE >> }

\* readings of the digital sensor: a value, or NaN
NaN == "nan"
DhtInputs == { NaN, "23.5" }

\* results of ThingSpeak.writeFields
HttpCodes == { 200, 404 }

\* raw soil readings shown in calibration mode
CalibrationInputs == { 1440, 2160 }


\* time between two iterations of loop() that find nothing to do: none, or
\* so long that the clock is 40001 ms short of wrapping round
SelectIdleTimes == { U32(0), U32Sub(U32(0), U32(40001)) }
MonitorIdleTimes == { U32(1), U32(30000) }

\* the same where loop() is followed for ever: the clock may also stand
\* still from one iteration to the next
LiveIdleTimes == { U32(0), U32(10000), U32(30000) }

\* what the clock may read when selectionScreen() runs again: a time at
\* which the timer set by SELECT is more than an interval old at once, and
\* the two ends of the times at which it is not (the clock is between 32000
\* ms and 2000 ms short of wrapping round, SELECT's delay of 2000 ms to come)
MenuClocks == { U32(0), U32Sub(U32(0), U32(32000)), U32Sub(U32(0), U32(2000)) }

\* the values of attempts at which the access point may accept the station
\* while connectWiFi() is polling
AssocPolls == { 3, 20 }

(***************************************************************************)
(* The decisions of the code, one operator per condition or expression.    *)
(***************************************************************************)
\* variant: an input that latches a press until it is read
SampledLevelLatched(low, during) == low \/ during

\* digitalRead(pin) == LOW: the level of the pin at the moment of the read
\* (low), whatever the button did during the delay() before it (during)
SampledLevel(low, during) == low

\* variant: the level of the pull-up input read the wrong way round
StartupCalibrationInverted(selectLow) == ~selectLow

\* setup(): digitalRead(BUTTON_SELECT_PIN) == LOW
StartupCalibration(selectLow) == selectLow

\* variant: loop() without its test of calibrationMode
LoopBranchNoCalibration(calibration, chosen) ==
  IF chosen THEN "monitoring" ELSE "selectionScreen"

\* loop(): the branch an iteration takes
LoopBranch(calibration, chosen) ==
  IF calibration THEN "runCalibrationMode"
  ELSE IF chosen THEN "monitoring" ELSE "selectionScreen"

\* variant: the increment without the wrap
NextIndexNoWrap(i) == i + 1

\* selectionScreen(): (selectedPlantIndex + 1) % numPlants
NextIndex(i) == CRem(IntAdd(i, 1), numPlants)

\* variant: the decrement without "+ numPlants", negative at index 0
PrevIndexNoOffset(i) == CRem(i - 1, numPlants)

\* selectionScreen(): (selectedPlantIndex - 1 + numPlants) % numPlants
PrevIndex(i) == CRem(IntAdd(IntAdd(i, 0 - 1), numPlants), numPlants)

\* selectionScreen(), lines 179-188: the index after the reads of UP and DOWN
AfterButtons(i, up, down) ==
  LET afterUp == IF up THEN NextIndex(i) ELSE i
  IN  IF down THEN PrevIndex(afterUp) ELSE afterUp

\* variant: the flag set outside the "if"
ChosenAfterSelectionAlways(chosen, selectLow) == TRUE

\* selectionScreen(): plantWasChosen after the SELECT check
ChosenAfterSelection(chosen, selectLow) == IF selectLow THEN TRUE ELSE chosen

\* variant: the SELECT check of the monitoring branch without effect
ChosenAfterMonitoringStays(chosen, selectLow) == chosen

\* loop(): plantWasChosen after the SELECT check of the monitoring branch
ChosenAfterMonitoring(chosen, selectLow) == IF selectLow THEN FALSE ELSE chosen

\* selectionScreen(): lastConnectionTime = -postingInterval
ImmediateTimer == -postingInterval

\* loop(): millis() - lastConnectionTime, computed in unsigned long
Elapsed(n, l) == U32Sub(n, LongToULong(l))

\* variant: the interval taken in seconds
PostDueSeconds(n, l) == U32Gt(Elapsed(n, l), U32(30))

\* variant: the interval compared with the clock alone
PostDueClockOnly(n, l) == U32Gt(n, LongToULong(postingInterval))

\* variant: ">=" for ">"
PostDueInclusive(n, l) == ~U32Gt(LongToULong(postingInterval), Elapsed(n, l))

\* variant: the clock compared with the deadline timer + interval
PostDueDeadline(n, l) ==
  U32Gt(n, U32Add(LongToULong(l), LongToULong(postingInterval)))

\* variant: a gate that never opens
PostDueNever(n, l) == FALSE

\* loop(): millis() - lastConnectionTime > postingInterval
PostDue(n, l) == U32Gt(Elapsed(n, l), LongToULong(postingInterval))

\* variant: "&&" for "||"
SensorInvalidBoth(t, h) == t = NaN /\ h = NaN

\* monitoringAndSendingScreen(): isnan(temperature) || isnan(airHumidity)
SensorInvalid(t, h) == t = NaN \/ h = NaN

\* variant: ">=" for ">" at the dry threshold
SoilStatusInclusive(v, p) ==
  IF v >= p.drySoilMoisture THEN "Water the soil"
  ELSE IF v < p.wetSoilMoisture THEN "Soil too wet"
  ELSE "Ideal soil"

\* monitoringAndSendingScreen(): the soil status
SoilStatus(v, p) ==
  IF v > p.drySoilMoisture THEN "Water the soil"
  ELSE IF v < p.wetSoilMoisture THEN "Soil too wet"
  ELSE "Ideal soil"

\* variant: the check of the link left out
AlreadyConnectedIgnored(connected) == FALSE

\* connectWiFi(): WiFi.status() == WL_CONNECTED, the early return
AlreadyConnected(connected) == connected

\* variant: "<=" for "<"
KeepPollingOneMore(connected, n) == ~connected /\ n <= MaxAttempts

\* connectWiFi(): WiFi.status() != WL_CONNECTED && attempts < 20
KeepPolling(connected, n) == ~connected /\ n < MaxAttempts

\* variant: the success line whatever the result
WriteResultLineAlwaysSent(httpCode, name) == << "Data sent to channel: ", name >>

\* monitoringAndSendingScreen(): the line logging the result of the write
WriteResultLine(httpCode, name) ==
  IF httpCode = 200
    THEN << "Data sent to channel: ", name >>
    ELSE << "Error sending data. HTTP Code: ", ToString(httpCode) >>

\* variant: the menu without the name of the plant
MenuScreenNoName(name) == << << "Plant: ", " " >>, << "< UP/DOWN >" >> >>

\* selectionScreen(): the menu, "Plant: " + name + " " on row 0
MenuScreen(name) == << << "Plant: ", name, " " >>, << "< UP/DOWN >" >> >>

\* connectWiFi(): the text reporting the result
ConnectionResultText(connected) ==
  IF connected THEN "Connected!" ELSE "Connection failed"

(***************************************************************************)
(* State.                                                                  *)
(***************************************************************************)
VARIABLES
  pc,                   \* position of the thread of control
  ret,                  \* the caller connectWiFi() returns to
  now,                  \* millis(), unsigned long
  calibrationMode,
  plantWasChosen,
  selectedPlantIndex,
  lastConnectionTime,   \* long
  attempts,             \* connectWiFi()'s local
  wifiConnected,        \* WiFi.status() == WL_CONNECTED
  wifiBegun,            \* WiFi.begin() has been called
  lcd,                  \* << row 0, row 1 >>
  serial,               \* the line printed on Serial by this iteration of loop()
  thingSpeak,           \* the request this iteration wrote to the cloud, its result
  \* history, read by the properties only
  ticks,                \* iterations of loop() started
  tick,                 \* what the current (or last) iteration saw and did
  waited,               \* ms spent in connectWiFi()'s polling loop
  linkSeen,             \* the link came up since the last WiFi.begin()
  bootSelect,           \* SELECT as sampled by setup()
  horizon,              \* iterations of loop() this behaviour is followed for
  sinceCycle,           \* ms since the last post cycle started in this episode
  sinceWrite            \* ms since the last cloud write

vars == << pc, ret, now, calibrationMode, plantWasChosen, selectedPlantIndex,
           lastConnectionTime, attempts, wifiConnected, wifiBegun, lcd, serial,
           thingSpeak, ticks, tick, waited, linkSeen, bootSelect, horizon, sinceCycle,
           sinceWrite >>

\* the program is aborted in the read of line 215, the first thing done
\* after connectWiFi(): it runs no further
Terminate ==
  /\ pc' = "aborted"
  /\ UNCHANGED << ret, now, calibrationMode, plantWasChosen, selectedPlantIndex,
                  lastConnectionTime, attempts, wifiConnected, wifiBegun, lcd,
                  serial, thingSpeak, ticks, tick, waited, linkSeen, bootSelect,
                  horizon, sinceCycle, sinceWrite >>

app  == << calibrationMode, plantWasChosen, selectedPlantIndex, lastConnectionTime >>
wifi == << wifiConnected, wifiBegun, linkSeen >>

\* the mode of the application controller
Mode ==
  IF calibrationMode THEN "Calibration"
  ELSE IF plantWasChosen THEN "Monitoring" ELSE "Selecting"

\* history timers saturate just above the posting interval
Cap == postingInterval + 1
None == 0 - 1
Sat(x, d) ==
  IF x = None THEN None
  ELSE IF d[1] > 0 \/ x + d[2] > Cap THEN Cap ELSE x + d[2]

\* d (unsigned long) milliseconds pass
Pass(d) ==
  /\ now' = U32Add(now, d)
  /\ sinceCycle' = Sat(sinceCycle, d)
  /\ sinceWrite' = Sat(sinceWrite, d)

NoTime == UNCHANGED << now, sinceCycle, sinceWrite >>

NoRequest == [channel |-> U32(0), field1 |-> NaN, field2 |-> 0, field3 |-> NaN,
              status |-> << >>, code |-> 0]

\* the record of an iteration of loop() that starts now.  up, down, select
\* are the levels of the buttons at the reads of the iteration; within says
\* that the buttons were pressed and released inside a delay() that no read
\* of a button has followed yet; chosen is the index that was selected when
\* SELECT started the Monitoring episode the iteration belongs to; drawn says that the iteration has written
\* to the display; streak counts (up to 2) the reads of SELECT
\* that found it pressed, one after the other, just before this iteration.
NewTick(m) ==
  [ mode |-> m, up |-> FALSE, down |-> FALSE, select |-> FALSE,
    drawn |-> FALSE,
    chosen |-> IF m = "Monitoring" THEN tick.chosen ELSE None,
    within |-> m = "Monitoring" /\ tick.within,
    streak |-> IF m # "Calibration" /\ tick.select
                 THEN (IF tick.streak = 0 THEN 1 ELSE 2) ELSE 0,
    elapsed |-> U32(0), due |-> FALSE,
    timer0 |-> IF m = "Monitoring" THEN lastConnectionTime ELSE 0,
    lcd0 |-> IF m = "Monitoring" THEN lcd ELSE LcdClear,
    wifi0 |-> IF m = "Monitoring" THEN wifiConnected ELSE FALSE,
    connect |-> FALSE, begin |-> FALSE, failed |-> FALSE,
    sensors |-> FALSE, temperature |-> "", airHumidity |-> "",
    writes |-> 0, gap |-> None, wgap |-> None ]

\* the globals at their initialisers, before setup() runs
Boot ==
  /\ pc = "setup"
  /\ ret = "setup"
  /\ now = U32(0)
  /\ calibrationMode = FALSE
  /\ plantWasChosen = FALSE
  /\ selectedPlantIndex = 0
  /\ lastConnectionTime = 0
  /\ attempts = 0
  /\ wifiConnected = FALSE
  /\ wifiBegun = FALSE
  /\ lcd = LcdClear
  /\ serial = << >>
  /\ thingSpeak = NoRequest
  /\ ticks = 0
  /\ tick = [ mode |-> "Startup", up |-> FALSE, down |-> FALSE, select |-> FALSE,
              drawn |-> FALSE, chosen |-> None, within |-> FALSE,
              streak |-> 0,
              elapsed |-> U32(0), due |-> FALSE,
              timer0 |-> 0, lcd0 |-> LcdClear, wifi0 |-> FALSE,
              connect |-> FALSE, begin |-> FALSE, failed |-> FALSE,
              sensors |-> FALSE, temperature |-> "", airHumidity |-> "",
              writes |-> 0, gap |-> None, wgap |-> None ]
  /\ waited = 0
  /\ linkSeen = FALSE
  /\ bootSelect = FALSE
  /\ sinceCycle = None
  /\ sinceWrite = None

Init == Boot /\ horizon = MaxTicks

\* the same start, followed for ever: the horizon is one iteration away and
\* is moved on each time it is reached
LiveInit == Boot /\ horizon = 1

(***************************************************************************)
(* setup()                                                                 *)
(***************************************************************************)
\* setup() up to the call of connectWiFi(): "Starting...", one second, then
\* the only sample of SELECT that decides on calibration mode
Setup(selectLow) ==
  /\ pc = "setup"
  /\ bootSelect' = selectLow
  /\ Pass(U32(1000))
  /\ calibrationMode' = StartupCalibration(selectLow)
  /\ IF calibrationMode'
       THEN /\ lcd' = << << "Calibration Mode" >>, Blank >>
            /\ pc' = "loop"
       ELSE /\ lcd' = << << "Starting..." >>, Blank >>
            /\ pc' = "connectWiFi"
  /\ ret' = "setup"
  /\ UNCHANGED << plantWasChosen, selectedPlantIndex, lastConnectionTime,
                  attempts, wifi, serial, thingSpeak, ticks, tick, waited,
                  horizon >>

\* setup() after connectWiFi() returned: the selection prompt, printed at
\* the cursor, and two seconds
SetupRest ==
  /\ pc = "setupRest"
  /\ lcd' = << lcd[1] \o << "Select the" >>, << "plant:" >> >>
  /\ Pass(U32(2000))
  /\ pc' = "loop"
  /\ UNCHANGED << ret, app, attempts, wifi, serial, thingSpeak, ticks, tick,
                  waited, bootSelect, horizon >>

(***************************************************************************)
(* connectWiFi()                                                           *)
(***************************************************************************)
\* variant: a post cycle is abandoned when connectWiFi() returns
AfterConnectAbandons(r) == IF r = "setup" THEN "setupRest" ELSE "checkSelect"

\* where connectWiFi() returns to
AfterConnect(r) == IF r = "setup" THEN "setupRest" ELSE "readSensors"

\* entry: return at once on a connected link, else begin the association
ConnectWiFi ==
  /\ pc = "connectWiFi"
  /\ IF AlreadyConnected(wifiConnected)
       THEN /\ pc' = AfterConnect(ret)
            /\ tick' = [tick EXCEPT !.connect = TRUE]
            /\ UNCHANGED << wifiBegun, linkSeen, lcd, attempts, waited >>
       ELSE /\ wifiBegun' = TRUE
            /\ linkSeen' = FALSE
            /\ lcd' = << << "Connecting WiFi" >>, Blank >>
            /\ attempts' = 0
            /\ waited' = 0
            /\ tick' = [tick EXCEPT !.connect = TRUE, !.begin = TRUE,
                                    !.drawn = TRUE]
            /\ pc' = "connectPoll"
  /\ NoTime
  /\ UNCHANGED << ret, app, wifiConnected, serial, thingSpeak, ticks, bootSelect, horizon >>

\* one evaluation of the while condition, and the body when it holds
ConnectPoll ==
  /\ pc = "connectPoll"
  /\ IF KeepPolling(wifiConnected, attempts)
       THEN /\ lcd' = << Append(lcd[1], "."), lcd[2] >>
            /\ Pass(U32(500))
            /\ waited' = waited + 500
            /\ attempts' = attempts + 1
            /\ pc' = pc
       ELSE /\ pc' = "connectResult"
            /\ NoTime
            /\ UNCHANGED << lcd, waited, attempts >>
  /\ UNCHANGED << ret, app, wifi, serial, thingSpeak, ticks, tick, bootSelect, horizon >>

\* the result is shown for one second
ConnectResult ==
  /\ pc = "connectResult"
  /\ lcd' = << << ConnectionResultText(wifiConnected) >>, Blank >>
  /\ tick' = [tick EXCEPT !.failed = ~wifiConnected]
  /\ Pass(U32(1000))
  /\ pc' = "connectDone"
  /\ UNCHANGED << ret, app, attempts, wifi, serial, thingSpeak, ticks, waited,
                  bootSelect, horizon >>

\* the display is cleared and connectWiFi() returns
ConnectDone ==
  /\ pc = "connectDone"
  /\ lcd' = LcdClear
  /\ pc' = AfterConnect(ret)
  /\ attempts' = 0
  /\ waited' = 0
  /\ linkSeen' = FALSE
  /\ NoTime
  /\ UNCHANGED << ret, app, wifiConnected, wifiBegun, serial, thingSpeak, ticks,
                  tick, bootSelect, horizon >>

(***************************************************************************)
(* loop()                                                                  *)
(***************************************************************************)
\* runCalibrationMode()
RunCalibrationMode(sensorValue) ==
  /\ pc = "loop"
  /\ ticks < horizon
  /\ LoopBranch(calibrationMode, plantWasChosen) = "runCalibrationMode"
  /\ ticks' = ticks + 1
  /\ tick' = [NewTick("Calibration") EXCEPT !.drawn = TRUE]
  /\ lcd' = << lcd[1], << "Value: ", ToString(sensorValue), "   " >> >>
  /\ serial' = << "Calibration Value: ", ToString(sensorValue) >>
  /\ Pass(U32(250))
  /\ thingSpeak' = NoRequest
  /\ UNCHANGED << pc, ret, app, attempts, wifi, waited, bootSelect, horizon >>

\* selectionScreen(), whole: the menu is drawn, then UP, DOWN and SELECT are
\* sampled in this order, each followed by its delay when found pressed.
\* upLow, downLow, selectLow are the levels at the three reads; within says
\* that the buttons were also pressed and released inside the delays of this
\* iteration; idle is the time until loop() runs again after an iteration
\* that found no button pressed; menu and shown are the outcomes of the reads
\* of plantProfiles at lines 174 and 196 (shown is menu when line 196 is
\* not reached).
SelectionScreen(upLow, downLow, selectLow, idle, within, menu, shown) ==
  /\ pc = "loop"
  /\ ticks < horizon
  /\ LoopBranch(calibrationMode, plantWasChosen) = "selectionScreen"
  /\ LET up     == SampledLevel(upLow, tick.within)
         down   == SampledLevel(downLow, tick.within \/ (up /\ within))
         select == SampledLevel(selectLow,
                                tick.within \/ ((up \/ down) /\ within))
         afterDown == AfterButtons(selectedPlantIndex, up, down)
         debounce  == (IF up THEN 200 ELSE 0) + (IF down THEN 200 ELSE 0)
         delays    == debounce + (IF select THEN 2000 ELSE 0)
     IN  /\ (up \/ down \/ select) => idle = U32(0)
         /\ within => delays > 0
         /\ menu \in ProfileAt(selectedPlantIndex)
         /\ shown \in IF select /\ ~Aborts(menu) THEN ProfileAt(afterDown)
                                                 ELSE { menu }
         /\   IF Aborts(menu)
                THEN \* aborted in the read of line 174, before any button is read
                  /\ pc' = "aborted"
                  /\ tick' = NewTick("Selecting")
                  /\ NoTime
                  /\ UNCHANGED << selectedPlantIndex, plantWasChosen,
                                  lastConnectionTime, lcd >>
                ELSE
                    /\ selectedPlantIndex' = afterDown
                    /\ plantWasChosen' = ChosenAfterSelection(plantWasChosen, select)
                    /\ tick' = [NewTick("Selecting") EXCEPT
                                  !.up = upLow, !.down = downLow,
                                  !.select = selectLow,
                                  !.within = within, !.drawn = TRUE,
                                  !.chosen = IF plantWasChosen'
                                               THEN selectedPlantIndex'
                                               ELSE None]
                    /\ IF Aborts(shown)
                         THEN \* aborted in the read of line 196, after lines 174-194
                           /\ pc' = "aborted"
                           /\ lcd' = << << "Monitoring:" >>, Blank >>
                           /\ lastConnectionTime' = lastConnectionTime
                           /\ Pass(U32(debounce))
                         ELSE
                           /\ pc' = pc
                           /\ IF select
                                THEN /\ lcd' = << << "Monitoring:" >>,
                                                  IF Nameless(shown)
                                                    THEN shown.row
                                                    ELSE << shown.name >> >>
                                     /\ lastConnectionTime' = ImmediateTimer
                                     /\ now' = U32Add(now, U32(delays))
                                     /\ sinceWrite' = Sat(sinceWrite, U32(delays))
                                     /\ sinceCycle' = None
                                ELSE /\ lcd' = IF Nameless(menu)
                                                    THEN << menu.row,
                                                            << "< UP/DOWN >" >> >>
                                                    ELSE MenuScreen(menu.name)
                                     /\ lastConnectionTime' = lastConnectionTime
                                     /\ Pass(U32Add(U32(delays), idle))
  /\ ticks' = ticks + 1
  /\ serial' = << >>
  /\ thingSpeak' = NoRequest
  /\ UNCHANGED << ret, calibrationMode, attempts, wifi, waited, bootSelect,
                  horizon >>

\* loop(), monitoring branch, up to the sensors: the interval check and, when
\* it passes, monitoringAndSendingScreen() up to its call of connectWiFi()
MonitoringGate ==
  /\ pc = "loop"
  /\ ticks < horizon
  /\ LoopBranch(calibrationMode, plantWasChosen) = "monitoring"
  /\ ticks' = ticks + 1
  /\ IF PostDue(now, lastConnectionTime)
       THEN /\ lastConnectionTime' = ULongToLong(now)
            /\ tick' = [NewTick("Monitoring") EXCEPT
                          !.elapsed = Elapsed(now, lastConnectionTime),
                          !.due = TRUE, !.gap = sinceCycle]
            /\ sinceCycle' = 0
            /\ IF ~wifiConnected
                 THEN pc' = "connectWiFi" /\ ret' = "monitor"
                 ELSE pc' = "readSensors" /\ ret' = ret
       ELSE /\ tick' = [NewTick("Monitoring") EXCEPT
                          !.elapsed = Elapsed(now, lastConnectionTime)]
            /\ pc' = "checkSelect"
            /\ UNCHANGED << lastConnectionTime, sinceCycle, ret >>
  /\ serial' = << >>
  /\ thingSpeak' = NoRequest
  /\ UNCHANGED << now, sinceWrite, calibrationMode, plantWasChosen,
                  selectedPlantIndex, attempts, wifi, lcd, waited, bootSelect, horizon >>

\* monitoringAndSendingScreen() from the profile lookup to its end;
\* currentProfile is the outcome of the read of plantProfiles at line 215
ReadSensors(soilMoistureValue, temperature, airHumidity, httpCode, currentProfile) ==
  /\ pc = "readSensors"
  /\ currentProfile \in ProfileAt(selectedPlantIndex)
  /\   IF Aborts(currentProfile)
         THEN Terminate
         ELSE
           LET soilStatus == SoilStatus(soilMoistureValue, currentProfile)
           IN  /\ IF SensorInvalid(temperature, airHumidity)
                    THEN /\ serial' = << "Error reading from DHT sensor!" >>
                         /\ tick' = [tick EXCEPT !.sensors = TRUE,
                                                 !.temperature = temperature,
                                                 !.airHumidity = airHumidity]
                         /\ UNCHANGED << lcd, thingSpeak, sinceWrite >>
                    ELSE /\ lcd' = << << "T:", temperature, "C H:", airHumidity, "%" >>,
                                      << soilStatus >> >>
                         /\ thingSpeak' =
                              [ channel |-> currentProfile.channelID,
                                field1 |-> temperature,
                                field2 |-> soilMoistureValue,
                                field3 |-> airHumidity,
                                status |-> IF Nameless(currentProfile)
                                             THEN currentProfile.status
                                                    \o << soilStatus >>
                                             ELSE << "Plant: ",
                                                     currentProfile.name,
                                                     " - ", soilStatus >>,
                                code |-> httpCode ]
                         /\ serial' = IF Nameless(currentProfile)
                                         THEN IF httpCode = 200
                                                THEN currentProfile.line
                                                ELSE WriteResultLine(httpCode, "")
                                         ELSE WriteResultLine(httpCode,
                                                              currentProfile.name)
                         /\ tick' = [tick EXCEPT !.sensors = TRUE,
                                                 !.temperature = temperature,
                                                 !.airHumidity = airHumidity,
                                                 !.drawn = TRUE,
                                                 !.writes = @ + 1,
                                                 !.wgap = sinceWrite]
                         /\ sinceWrite' = 0
               /\ pc' = "checkSelect"
               /\ UNCHANGED << ret, now, sinceCycle, app, attempts, wifi, ticks,
                               waited, bootSelect, horizon >>

\* loop(), monitoring branch, the SELECT check that ends the iteration.
\* selectLow is the level at the read; within says that the buttons were
\* also pressed and released inside the delay; idle is the time until loop()
\* runs again when SELECT was not pressed; upLow and downLow are the levels
\* of the two buttons this branch does not read.
CheckSelect(selectLow, idle, within, upLow, downLow) ==
  /\ pc = "checkSelect"
  /\ LET select == SampledLevel(selectLow, tick.within)
     IN  /\ select => idle = U32(0)
         /\ within => select
         /\ plantWasChosen' = ChosenAfterMonitoring(plantWasChosen, select)
         /\ IF select
              THEN /\ lcd' = << << "Select the" >>, << "plant:" >> >>
                   /\ Pass(U32(500))
              ELSE /\ lcd' = lcd
                   /\ Pass(idle)
  /\ tick' = [tick EXCEPT !.select = selectLow, !.within = within,
                          !.up = upLow, !.down = downLow,
                          !.drawn = @ \/ SampledLevel(selectLow, tick.within)]
  /\ pc' = "loop"
  /\ UNCHANGED << ret, calibrationMode, selectedPlantIndex, lastConnectionTime,
                  attempts, wifi, serial, thingSpeak, ticks, waited, bootSelect,
                  horizon >>

(***************************************************************************)
(* The WiFi link, which comes and goes on its own.  The program sees it    *)
(* only through WiFi.status(), so a change is taken at the last moment     *)
(* before the next read of the status.                                     *)
(***************************************************************************)
\* the next step of the program reads WiFi.status()
StatusReadNext ==
  \/ pc \in { "connectWiFi", "connectPoll", "connectResult" }
  \/ pc = "loop" /\ ticks < horizon /\ Mode = "Monitoring"
                 /\ PostDue(now, lastConnectionTime)

\* the station associates, which it can once WiFi.begin() was called
WiFiUp ==
  /\ StatusReadNext
  /\ wifiBegun
  /\ ~wifiConnected
  /\ pc = "connectPoll" => attempts \in AssocPolls
  /\ wifiConnected' = TRUE
  /\ linkSeen' = TRUE
  /\ UNCHANGED << pc, ret, now, app, attempts, wifiBegun, lcd, serial,
                  thingSpeak, ticks, tick, waited, bootSelect, horizon, sinceCycle,
                  sinceWrite >>

\* the link drops
WiFiDown ==
  /\ StatusReadNext
  /\ wifiConnected
  /\ wifiConnected' = FALSE
  /\ UNCHANGED << pc, ret, now, app, attempts, wifiBegun, linkSeen, lcd, serial,
                  thingSpeak, ticks, tick, waited, bootSelect, horizon, sinceCycle,
                  sinceWrite >>

(***************************************************************************)
(* The steps with their inputs drawn.                                      *)
(***************************************************************************)
SetupStep == \E s \in BOOLEAN : Setup(s)

CalibrationStep == \E v \in CalibrationInputs : RunCalibrationMode(v)

\* the outcomes of the reads of plantProfiles are drawn only where the step
\* can be taken
SelectionStep ==
  /\ pc = "loop"
  /\ \E u, d, s, w \in BOOLEAN :
       \E i \in IF u \/ d \/ s THEN { U32(0) } ELSE SelectIdleTimes :
         \E menu \in ProfileReads(selectedPlantIndex) :
           \E shown \in IF s THEN ProfileReads(AfterButtons(selectedPlantIndex, u, d))
                              ELSE { menu } :
             SelectionScreen(u, d, s, i, w, menu, shown)

SensorStep ==
  /\ pc = "readSensors"
  /\ \E p \in ProfileReads(selectedPlantIndex) :
       \E v \in SoilReadings(selectedPlantIndex) :
         \E t, h \in DhtInputs : \E c \in HttpCodes :
           ReadSensors(v, t, h, c, p)

CheckSelectStep ==
  \E s \in BOOLEAN :
    \E i \in IF s THEN { U32(0) } ELSE MonitorIdleTimes :
      \E w \in BOOLEAN :
        \E a \in IF s \/ i # U32(1) THEN { << FALSE, FALSE >> }
                                     ELSE ArrowInputs :
          CheckSelect(s, i, w, a[1], a[2])

\* the steps of the program
Program ==
  \/ SetupStep
  \/ SetupRest
  \/ ConnectWiFi
  \/ ConnectPoll
  \/ ConnectResult
  \/ ConnectDone
  \/ CalibrationStep
  \/ SelectionStep
  \/ MonitoringGate
  \/ SensorStep
  \/ CheckSelectStep

Next ==
  \/ Program
  \/ WiFiUp
  \/ WiFiDown

Spec == Init /\ [][Next]_vars

\* selectionScreen() when its first run finds the buttons untouched and
\* loop() runs it again only when the clock is past half of its range
LongIdleSelectionStep ==
  /\ SelectionStep
  /\ ticks = 0 => now'[1] >= Base \div 2

\* the behaviours that come near the wrap of millis(): the steps of the
\* program, the menu left alone at first, followed for MaxWrapTicks
\* iterations
WrapInit == Boot /\ horizon = MaxWrapTicks

WrapNext ==
  \/ SetupStep
  \/ SetupRest
  \/ ConnectWiFi
  \/ ConnectPoll
  \/ ConnectResult
  \/ ConnectDone
  \/ CalibrationStep
  \/ LongIdleSelectionStep
  \/ MonitoringGate
  \/ SensorStep
  \/ CheckSelectStep
  \/ WiFiUp
  \/ WiFiDown

WrapSpec == WrapInit /\ [][WrapNext]_vars

(***************************************************************************)
(* loop() for ever.  The program reads the clock only in the difference    *)
(* millis() - lastConnectionTime of line 130, so the origin of the clock   *)
(* can be moved between two iterations of loop() without any effect on     *)
(* what the program does next.  That keeps the states finite in number     *)
(* while loop() is run without end.                                        *)
(***************************************************************************)
\* the difference of line 130, which is all the same to the program once it
\* is above the interval
ElapsedUpToCap(n, l) ==
  IF U32Gt(Elapsed(n, l), U32(Cap)) THEN U32(Cap) ELSE Elapsed(n, l)

\* the record of an iteration that has ended, with nothing left in it but
\* what the record of the next iteration is made from
Forgotten(t) ==
  [ t EXCEPT !.up = FALSE, !.down = FALSE, !.drawn = FALSE,
             !.elapsed = U32(0), !.due = FALSE, !.timer0 = 0,
             !.lcd0 = LcdClear, !.wifi0 = FALSE, !.connect = FALSE,
             !.begin = FALSE, !.failed = FALSE, !.sensors = FALSE,
             !.temperature = "", !.airHumidity = "", !.writes = 0,
             !.gap = None, !.wgap = None ]

\* Between two iterations of loop(), at the horizon: the count of iterations
\* starts again and the origin of the clock is moved to where the timer is
\* 0.  In Monitoring the difference of line 130 is kept as it is (as Cap
\* when it is above the interval: no time passes before line 130 reads it).
\* In Selecting the timer is not read before SELECT sets it, and the menu
\* may have been left alone for any time: time passes until the clock reads
\* one of MenuClocks.  In calibration mode the clock is never read.  What
\* the iteration that has ended put out is put away, as the start of the
\* next iteration does in any case.
Rebase ==
  /\ pc = "loop"
  /\ ticks = horizon
  /\ ticks' = 0
  /\ lastConnectionTime' = 0
  /\ IF Mode = "Monitoring"
       THEN /\ now' = ElapsedUpToCap(now, lastConnectionTime)
            /\ UNCHANGED << sinceCycle, sinceWrite >>
       ELSE \E c \in IF Mode = "Selecting" THEN MenuClocks ELSE { U32(0) } :
              Pass(U32Sub(c, now))
  /\ serial' = << >>
  /\ thingSpeak' = NoRequest
  /\ tick' = Forgotten(tick)
  /\ UNCHANGED << pc, ret, calibrationMode, plantWasChosen, selectedPlantIndex,
                  attempts, wifi, lcd, waited, bootSelect, horizon >>

\* the SELECT check with the idle times of LiveIdleTimes
LiveCheckSelectStep ==
  \E s \in BOOLEAN :
    \E i \in IF s THEN { U32(0) } ELSE LiveIdleTimes :
      \E w \in BOOLEAN : CheckSelect(s, i, w, FALSE, FALSE)

LiveProgram ==
  \/ SetupStep
  \/ SetupRest
  \/ ConnectWiFi
  \/ ConnectPoll
  \/ ConnectResult
  \/ ConnectDone
  \/ CalibrationStep
  \/ SelectionStep
  \/ MonitoringGate
  \/ SensorStep
  \/ LiveCheckSelectStep
  \/ Rebase

LiveNext ==
  \/ LiveProgram
  \/ WiFiUp
  \/ WiFiDown

\* an iteration of the Monitoring mode ends with more on the clock than when
\* its SELECT check was reached
ClockAdvances == LiveCheckSelectStep /\ now' # now

\* The processor keeps executing the program: loop() is called again as soon
\* as it returns, and no statement waits for anything but the clock.  The
\* clock keeps running: of the iterations of the Monitoring mode, which may
\* each find the clock where the one before left it, some find it further
\* on, again and again.  The WiFi link is under no obligation.
LiveSpec ==
  /\ LiveInit /\ [][LiveNext]_vars
  /\ WF_vars(LiveProgram)
  /\ SF_vars(ClockAdvances)

(***************************************************************************)
(* Properties.                                                             *)
(***************************************************************************)
\* a step that starts an iteration of loop()
TickStarts == ticks' = ticks + 1

\* the selection prompt as loop() draws it
SelectPrompt == << << "Select the" >>, << "plant:" >> >>

\* C1: after startup the mode changes only from Selecting to Monitoring, in an
\* iteration of the Selecting mode that sampled SELECT pressed, and from
\* Monitoring to Selecting, at the SELECT check of an iteration of the
\* Monitoring mode that sampled it pressed; no other step changes the mode.
C1_OnlySelectChangesMode ==
  [][ (pc # "setup" /\ Mode' # Mode) =>
        \/ /\ Mode = "Selecting" /\ Mode' = "Monitoring"
           /\ pc = "loop" /\ TickStarts
           /\ tick'.mode = "Selecting" /\ tick'.select
        \/ /\ Mode = "Monitoring" /\ Mode' = "Selecting"
           /\ pc = "checkSelect"
           /\ tick'.mode = "Monitoring" /\ tick'.select ]_vars

\* both transitions taken: back in Selecting after a Monitoring iteration
\* that posted and then sampled SELECT pressed
C1_Witness ==
  /\ pc = "loop" /\ Mode = "Selecting"
  /\ tick.mode = "Monitoring" /\ tick.select /\ tick.writes = 1

\* C2: in Monitoring a post cycle starts only when millis() -
\* lastConnectionTime (the stored timer, the difference taken modulo 2^32 as
\* the code takes it) is at least 30000; in an iteration that finds it below
\* 30000 no part of a post cycle happens: no sensor read, no cloud write, no
\* connect, the timer stays, and the display is as the iteration found it
\* when the SELECT check is reached (after it, it differs only by the
\* selection prompt drawn when SELECT was sampled pressed).
C2_NoPostBeforeInterval ==
  tick.mode = "Monitoring" =>
    /\ tick.due => ~U32Gt(U32(30000), tick.elapsed)
    /\ U32Gt(U32(30000), tick.elapsed) =>
         /\ ~tick.due /\ ~tick.connect /\ ~tick.sensors /\ tick.writes = 0
         /\ thingSpeak = NoRequest
         /\ lastConnectionTime = tick.timer0
         /\ pc = "checkSelect" => lcd = tick.lcd0
         /\ pc = "loop" => lcd = IF tick.select THEN SelectPrompt ELSE tick.lcd0

\* a Monitoring iteration that found more than 10 s but less than 30 s
\* elapsed, and did nothing
C2_Witness ==
  /\ pc = "loop" /\ tick.mode = "Monitoring" /\ ~tick.select
  /\ U32Gt(U32(30000), tick.elapsed) /\ U32Gt(tick.elapsed, U32(10000))

\* C3 as stated: any two consecutive cloud writes are at least 30000 ms of
\* real time apart.
C3_WritesAnIntervalApart ==
  (tick.writes > 0 /\ tick.wgap # None) => tick.wgap >= 30000

\* C3 as amended: a cloud write happens only in a post cycle, which starts
\* only when more than 30000 ms have passed on the timer; and two consecutive
\* post cycles of one Monitoring episode start more than 30000 ms of real
\* time apart.
C3_CyclesOfAnEpisodeAnIntervalApart ==
  /\ tick.writes > 0 =>
       /\ tick.mode = "Monitoring" /\ tick.due
       /\ U32Gt(tick.elapsed, U32(30000))
  /\ (tick.due /\ tick.gap # None) => tick.gap > 30000

\* the second post cycle of an episode has written to the cloud
C3_Witness ==
  /\ tick.due /\ tick.gap # None /\ tick.writes = 1 /\ tick.wgap # None

\* C4 as stated: the iteration of loop() that follows a Selecting ->
\* Monitoring transition runs a post cycle, whatever the clock reads.
C4_FirstIterationPosts ==
  [][ ( /\ pc = "loop" /\ Mode = "Monitoring"
        /\ tick.mode = "Selecting" /\ tick.select
        /\ TickStarts ) => tick'.due ]_vars

\* the sensor part of a post cycle has just ended on a NaN reading
NaNCycleEnded ==
  /\ pc = "checkSelect" /\ tick.sensors
  /\ (tick.temperature = "nan" \/ tick.airHumidity = "nan")

\* C5 as stated: a post cycle in which the digital sensor returns NaN for
\* temperature or humidity writes nothing to the cloud and leaves the
\* display, the application state (the post timer included) and the WiFi
\* state as they were when the cycle began; only a log line is printed.
C5_NaNCycleChangesNothing ==
  NaNCycleEnded =>
    /\ tick.writes = 0 /\ thingSpeak = NoRequest
    /\ lcd = tick.lcd0
    /\ lastConnectionTime = tick.timer0
    /\ Mode = "Monitoring"
    /\ ~tick.begin
    /\ serial = << "Error reading from DHT sensor!" >>

\* C5 as amended: such a cycle writes nothing to the cloud, prints the error
\* line and leaves mode and selected index alone; the post timer has been
\* set at the start of the cycle; the display is untouched and no
\* association is started when WiFi was connected at the start of the cycle
\* (otherwise connectWiFi() has run first, only then is the display
\* rewritten and WiFi.begin() called).
C5_NaNCycleSkipsThePost ==
  NaNCycleEnded =>
    /\ tick.writes = 0 /\ thingSpeak = NoRequest
    /\ serial = << "Error reading from DHT sensor!" >>
    /\ Mode = "Monitoring"
    /\ tick.due /\ lastConnectionTime # tick.timer0
    /\ ~tick.connect => /\ lcd = tick.lcd0
                        /\ lastConnectionTime = ULongToLong(now)
    /\ tick.wifi0 => ~tick.connect
    /\ tick.begin => tick.connect /\ ~tick.wifi0

\* a cycle with only the humidity NaN, WiFi connected at its start
C5_Witness ==
  /\ NaNCycleEnded /\ tick.wifi0
  /\ tick.temperature # "nan" /\ tick.airHumidity = "nan"

\* C6: for the raw soil value v and the profile (dry > wet) of a post cycle
\* that got past the sensor check, the status shown and sent is "Water the
\* soil" iff v > dry, "Soil too wet" iff v < wet and "Ideal soil" otherwise
\* (so at v = dry and at v = wet): exactly one of the three.
C6_SoilStatusByThresholds ==
  (pc = "checkSelect" /\ tick.writes > 0) =>
    LET v      == thingSpeak.field2
        dry    == plantProfiles[selectedPlantIndex + 1].drySoilMoisture
        wet    == plantProfiles[selectedPlantIndex + 1].wetSoilMoisture
        status == thingSpeak.status[4]
    IN  dry > wet =>
          /\ lcd[2] = << status >>
          /\ status \in { "Water the soil", "Soil too wet", "Ideal soil" }
          /\ status = "Water the soil" <=> v > dry
          /\ status = "Soil too wet" <=> v < wet
          /\ status = "Ideal soil" <=> (v <= dry /\ v >= wet)

\* a reading exactly at the dry threshold was classified
C6_Witness ==
  /\ pc = "checkSelect" /\ tick.writes > 0
  /\ thingSpeak.field2 = plantProfiles[selectedPlantIndex + 1].drySoilMoisture
  /\ lcd[2] = << "Ideal soil" >>

\* C7: an iteration of the Selecting mode that samples only UP pressed sets
\* the index to (i + 1) mod N, one that samples only DOWN pressed to
\* (i - 1 + N) mod N; UP from N - 1 gives 0 and DOWN from 0 gives N - 1.
C7_IndexWraps ==
  [][ (TickStarts /\ tick'.mode = "Selecting") =>
        /\ (tick'.up /\ ~tick'.down) =>
             /\ selectedPlantIndex' = (selectedPlantIndex + 1) % numPlants
             /\ selectedPlantIndex = numPlants - 1 => selectedPlantIndex' = 0
        /\ (tick'.down /\ ~tick'.up) =>
             /\ selectedPlantIndex' = (selectedPlantIndex - 1 + numPlants) % numPlants
             /\ selectedPlantIndex = 0 => selectedPlantIndex' = numPlants - 1
    ]_vars

\* the first iteration sampled only DOWN: the index went from 0 to N - 1
C7_Witness ==
  /\ ticks = 1 /\ tick.mode = "Selecting"
  /\ tick.down /\ ~tick.up /\ ~tick.select
  /\ selectedPlantIndex = numPlants - 1

\* C8: the selected index is always an index of the profile table.
C8_IndexInBounds == selectedPlantIndex \in 0 .. numPlants - 1

\* a post cycle looked up the last profile of the table
C8_Witness ==
  /\ selectedPlantIndex = numPlants - 1
  /\ tick.mode = "Monitoring" /\ tick.sensors

\* C9: calibration mode is entered exactly when setup() samples SELECT
\* pressed, and after setup()'s check the flag never changes.
C9_CalibrationOnlyAtStartup ==
  /\ [](pc # "setup" => (calibrationMode <=> bootSelect))
  /\ [][pc # "setup" => calibrationMode' = calibrationMode]_vars

\* calibration mode after all the iterations explored
C9_Witness == calibrationMode /\ bootSelect /\ ticks = MaxTicks

\* rank of a position inside connectWiFi(), growing along its control flow
ConnectRank ==
  CASE pc = "connectWiFi"   -> 0
    [] pc = "connectPoll"   -> 1 + attempts
    [] pc = "connectResult" -> 100
    [] pc = "connectDone"   -> 101
    [] OTHER                -> 102

\* a step of connectWiFi()
ConnectStep == ConnectWiFi \/ ConnectPoll \/ ConnectResult \/ ConnectDone

\* C10: connectWiFi() polls at most 20 times; when the link never comes up
\* it leaves the loop after exactly 20 polls and 20 * 500 = 10000 ms of
\* waiting and shows "Connection failed"; and it always terminates: inside
\* it a step is always possible, and every step moves forward in a bounded
\* rank.
C10_ConnectGivesUp ==
  /\ [](attempts <= 20 /\ waited = 500 * attempts)
  /\ [](ConnectRank < 102 => ENABLED ConnectStep)
  /\ []((pc = "connectResult" /\ ~linkSeen) => attempts = 20 /\ waited = 10000)
  /\ []((pc = "connectDone" /\ ~linkSeen) =>
          /\ attempts = 20 /\ waited = 10000
          /\ lcd[1] = << "Connection failed" >>)
  /\ [][ (ConnectRank < 102 /\ <<pc, attempts>>' # <<pc, attempts>>) =>
           ConnectRank' > ConnectRank ]_vars

\* the failure text is on the display after 20 failed polls
C10_Witness ==
  /\ pc = "connectDone" /\ ~linkSeen /\ ~wifiConnected
  /\ attempts = 20 /\ lcd[1] = << "Connection failed" >>

\* positions of a post cycle after its call of connectWiFi() was decided
PastConnectCall ==
  pc \in { "connectPoll", "connectResult", "connectDone", "readSensors",
           "checkSelect", "loop" }

\* C11 as stated: a post cycle in which connectWiFi() failed still reads the
\* sensors and attempts the cloud write, and WiFi is left disconnected.
C11_FailedConnectCycleWrites ==
  (pc = "checkSelect" /\ tick.failed) =>
    /\ tick.sensors /\ tick.writes = 1
    /\ ~wifiConnected

\* C11 as amended: a post cycle in which connectWiFi() failed goes on as any
\* other: the sensors are read and the cloud write is attempted unless the
\* digital sensor returned NaN; connectWiFi() leaves WiFi disconnected; and
\* after startup connectWiFi() is called at the start of a post cycle that
\* finds WiFi disconnected, of every such cycle, and nowhere else.
C11_FailedConnectIsNotFatal ==
  /\ []( (pc = "checkSelect" /\ tick.failed) =>
            /\ tick.due /\ tick.connect /\ tick.begin /\ tick.sensors
            /\ tick.writes =
                 IF tick.temperature = "nan" \/ tick.airHumidity = "nan"
                   THEN 0 ELSE 1 )
  /\ []( ( /\ tick.failed
           /\ pc \in { "connectDone", "setupRest", "readSensors", "checkSelect" } )
          => ~wifiConnected )
  /\ []( (tick.mode = "Monitoring" /\ PastConnectCall) =>
            (tick.connect <=> (tick.due /\ ~tick.wifi0)) )
  /\ []( tick.mode \in { "Selecting", "Calibration" } => ~tick.connect )
  /\ [][ (pc' = "connectWiFi" /\ pc # "connectWiFi") =>
           \/ pc = "setup"
           \/ /\ pc = "loop" /\ TickStarts
              /\ tick'.mode = "Monitoring" /\ tick'.due /\ ~wifiConnected ]_vars

\* the second post cycle of an episode found WiFi down and called
\* connectWiFi(), which failed, and wrote to the cloud all the same
C11_Witness ==
  /\ pc = "checkSelect" /\ tick.gap # None /\ ~tick.wifi0
  /\ tick.connect /\ tick.failed /\ tick.writes = 1 /\ ~wifiConnected

\* C12: a post cycle writes to the cloud at most once; after a write whose
\* result is not 200 the failure is logged and nothing else: no second write
\* in the cycle, the timer keeps the value set when the cycle started (it
\* still measures the real time since then), and the next iteration of the
\* Monitoring mode starts a post cycle exactly when more than 30000 ms have
\* passed since that start; a write is made only in a post cycle the gate
\* opened.
C12_FailedWriteIsNotRetried ==
  /\ [](tick.writes <= 1)
  /\ [](thingSpeak # NoRequest =>
          /\ tick.mode = "Monitoring" /\ tick.due /\ tick.writes = 1
          /\ U32Gt(tick.elapsed, U32(30000)))
  /\ []( (thingSpeak.code \notin { 0, 200 }) =>
            /\ serial = << "Error sending data. HTTP Code: ",
                           ToString(thingSpeak.code) >>
            /\ sinceCycle \in 0 .. 30000 =>
                 Elapsed(now, lastConnectionTime) = U32(sinceCycle) )
  /\ [][ (pc \in { "readSensors", "checkSelect" }) =>
           lastConnectionTime' = lastConnectionTime ]_vars
  /\ [][ ( /\ thingSpeak.code \notin { 0, 200 }
           /\ TickStarts /\ tick'.mode = "Monitoring" ) =>
           /\ tick'.due <=> sinceCycle > 30000
           /\ ~tick'.due => pc' = "checkSelect" /\ thingSpeak' = NoRequest ]_vars

\* a write has failed and the next iteration will find 1 ms more on the
\* clock: no post cycle is due
C12_Witness ==
  /\ pc = "loop" /\ Mode = "Monitoring"
  /\ tick.writes = 1 /\ thingSpeak.code = 404
  /\ sinceWrite = 1 /\ ~U32Gt(Elapsed(now, lastConnectionTime), U32(30000))

\* a step that starts a post cycle
CycleStarts == TickStarts /\ tick'.mode = "Monitoring" /\ tick'.due

\* a post cycle has just started: nothing of it is done yet
CycleJustStarted ==
  /\ pc \in { "connectWiFi", "readSensors" }
  /\ tick.mode = "Monitoring" /\ tick.due
  /\ ~tick.connect /\ ~tick.sensors

\* something has failed in the post cycle of the current iteration: the
\* connect timed out, the sensor read gave NaN, or the write was answered
\* with another code than 200
CycleFailed ==
  /\ tick.mode = "Monitoring" /\ tick.due
  /\ \/ tick.failed
     \/ tick.sensors /\ SensorInvalid(tick.temperature, tick.airHumidity)
     \/ thingSpeak.code \notin { 0, 200 }

\* C13: the device never halts and keeps uploading.  Under LiveSpec, where
\* loop() is run without end: in every behaviour that stays in Monitoring
\* from some point on (SELECT is not sampled pressed again), the steps that
\* start a post cycle occur infinitely often; after every failure in a post
\* cycle (connect timeout, NaN reading, write answered with another code
\* than 200) a later post cycle starts, unless the mode is left first; the
\* mode is left only at the SELECT check of an iteration that sampled SELECT
\* pressed; and in every state the program has a step to take.
C13_KeepsUploading ==
  /\ <>[](Mode = "Monitoring") => []<><<CycleStarts>>_vars
  /\ CycleFailed ~> (CycleJustStarted \/ Mode # "Monitoring")
  /\ [][ (Mode = "Monitoring" /\ Mode' # "Monitoring") =>
           (pc = "checkSelect" /\ tick'.select) ]_vars
  /\ [](pc # "aborted" /\ ENABLED <<LiveProgram>>_vars)

\* a post cycle starts in an episode whose earlier cycles all failed: the
\* link is down after WiFi.begin(), and no cycle since the start has made a
\* write although this one is not the first of its episode
C13_Witness ==
  /\ CycleJustStarted /\ pc = "connectWiFi"
  /\ tick.gap # None /\ sinceWrite = None
  /\ wifiBegun /\ ~wifiConnected

\* C14: connectWiFi() called on a connected link returns at once to its
\* caller: it starts no association, no time passes, and the display, the
\* WiFi state and the application state are as before the call; so any
\* number of such calls changes none of them.
C14_ConnectOnConnectedLinkIsIdentity ==
  [][ (pc = "connectWiFi" /\ wifiConnected /\ pc' # pc) =>
        /\ pc' = IF ret = "setup" THEN "setupRest" ELSE "readSensors"
        /\ tick'.connect /\ ~tick'.begin
        /\ UNCHANGED << wifiConnected, wifiBegun, lcd, now, attempts, waited,
                        calibrationMode, plantWasChosen, selectedPlantIndex,
                        lastConnectionTime, serial, thingSpeak, ret >> ]_vars

\* connectWiFi() was called by a post cycle that read the link as down, found
\* it up at its own check and returned
C14_Witness ==
  /\ pc = "readSensors" /\ wifiConnected
  /\ ~tick.wifi0 /\ tick.connect /\ ~tick.begin /\ ~tick.failed

\* C15: a press that begins and ends inside the delay() after a detected
\* press (200 ms after UP or DOWN, 2000 ms after SELECT in Selecting, 500 ms
\* after SELECT in Monitoring) is ignored.  In an iteration that runs such a
\* delay with such a press in it, or that follows one, mode, index and timer
\* are what the levels at the reads of the buttons make them, and they are
\* unchanged when the buttons are up at the reads; the post timer changes
\* otherwise only when the gate opens a post cycle.
C15_PressInsideDelayIgnored ==
  /\ [][ ( /\ TickStarts /\ tick'.mode = "Selecting"
           /\ (tick.within \/ tick'.within) ) =>
           LET i  == selectedPlantIndex
               i1 == IF tick'.up THEN (i + 1) % numPlants ELSE i
               i2 == IF tick'.down THEN (i1 - 1 + numPlants) % numPlants ELSE i1
           IN  /\ selectedPlantIndex' = i2
               /\ plantWasChosen' = tick'.select
               /\ calibrationMode' = calibrationMode
               /\ lastConnectionTime' =
                    IF tick'.select THEN -30000 ELSE lastConnectionTime ]_vars
  /\ [][ (TickStarts /\ tick'.mode = "Monitoring" /\ tick.within) =>
           /\ tick'.within
           /\ UNCHANGED << calibrationMode, plantWasChosen, selectedPlantIndex >>
           /\ lastConnectionTime' =
                IF tick'.due THEN ULongToLong(now) ELSE lastConnectionTime ]_vars
  /\ [][ ( /\ pc = "checkSelect" /\ pc' # pc
           /\ (tick.within \/ tick'.within) ) =>
           /\ plantWasChosen' = ~tick'.select
           /\ UNCHANGED << calibrationMode, selectedPlantIndex,
                           lastConnectionTime >> ]_vars

\* an iteration of the Selecting mode found only UP pressed; the buttons were
\* pressed and released during its 200 ms, before DOWN and SELECT were read:
\* the index moved by one and the mode is Selecting
C15_Witness ==
  /\ pc = "loop" /\ ticks = 1 /\ Mode = "Selecting"
  /\ tick.mode = "Selecting" /\ tick.within
  /\ tick.up /\ ~tick.down /\ ~tick.select
  /\ selectedPlantIndex = 1 /\ lastConnectionTime = 0

\* C16: the buttons are level-triggered.  A read that finds a button pressed
\* fires its action whatever the read before it found: SELECT changes
\* Selecting to Monitoring and Monitoring to Selecting also when the read
\* before found it pressed, so that SELECT held down makes the mode
\* alternate; UP alone, or DOWN alone, moves the index by one in every
\* iteration of the Selecting mode that finds it pressed, also when the
\* iteration before found it pressed.
C16_LevelTriggered ==
  /\ [][ (TickStarts /\ tick'.mode = "Selecting" /\ tick'.select) =>
           /\ Mode = "Selecting" /\ Mode' = "Monitoring"
           /\ tick'.streak = (IF tick.select
                                THEN (IF tick.streak = 0 THEN 1 ELSE 2) ELSE 0)
         ]_vars
  /\ [][ (pc = "checkSelect" /\ pc' # pc /\ tick'.select) =>
           /\ Mode = "Monitoring" /\ Mode' = "Selecting"
           /\ tick'.streak = tick.streak ]_vars
  /\ [][ ( /\ TickStarts /\ tick'.mode = "Selecting"
           /\ tick'.up # tick'.down ) =>
           selectedPlantIndex' =
             IF tick'.up THEN (selectedPlantIndex + 1) % numPlants
             ELSE (selectedPlantIndex - 1 + numPlants) % numPlants ]_vars

\* SELECT was found pressed by three reads in a row: the mode went from
\* Selecting to Monitoring, back to Selecting, and to Monitoring again
C16_Witness ==
  /\ pc = "loop" /\ Mode = "Monitoring"
  /\ tick.mode = "Selecting" /\ tick.select /\ tick.streak = 2

\* C17: in calibration mode the device only streams raw soil values.  In
\* every state after setup() entered calibration mode, WiFi.begin() has not
\* been called and connectWiFi() has not run, nothing has been written to
\* the cloud, the selected index and the post timer have their initial
\* values, no plant is chosen, and every iteration of loop() has printed the
\* raw value on the display's second row and on Serial.
C17_CalibrationOnlyStreams ==
  calibrationMode =>
    /\ pc = "loop"
    /\ ~wifiBegun /\ ~wifiConnected /\ ~tick.connect /\ ~tick.begin
    /\ attempts = 0 /\ waited = 0
    /\ thingSpeak = NoRequest /\ tick.writes = 0 /\ sinceWrite = None
    /\ ~tick.sensors /\ ~tick.due /\ sinceCycle = None
    /\ selectedPlantIndex = 0 /\ lastConnectionTime = 0 /\ ~plantWasChosen
    /\ tick.mode = (IF ticks = 0 THEN "Startup" ELSE "Calibration")
    /\ lcd[1] = << "Calibration Mode" >>
    /\ ticks > 0 =>
         /\ serial[1] = "Calibration Value: "
         /\ Len(lcd[2]) = 3 /\ lcd[2][1] = "Value: " /\ lcd[2][2] = serial[2]
    /\ now = U32(1000 + 250 * ticks)

\* two raw values have been streamed, the last one 2160
C17_Witness ==
  /\ calibrationMode /\ ticks = 2
  /\ serial = << "Calibration Value: ", "2160" >>
  /\ lcd = << << "Calibration Mode" >>, << "Value: ", "2160", "   " >> >>

\* C18 as stated: every iteration of loop(), in each of the three modes,
\* writes to the display.
C18_EveryIterationDraws == (pc = "loop" /\ ticks > 0) => tick.drawn

\* C18 as amended: every iteration of the Calibration mode writes the raw
\* value on row 1, every iteration of the Selecting mode draws the menu with
\* the name of the plant selected when it starts (and, when SELECT is read
\* pressed, the "Monitoring:" screen with the name selected then); an
\* iteration of the Monitoring mode writes to the display only in a post
\* cycle that calls WiFi.begin() or gets valid sensor values, and when
\* SELECT is read pressed: otherwise the display stays as it was.
C18_DrawsWhenThereIsSomethingToShow ==
  /\ [](( pc = "loop" /\ ticks > 0) =>
           /\ tick.mode \in { "Calibration", "Selecting" } => tick.drawn
           /\ tick.mode = "Calibration" =>
                /\ lcd[1] = << "Calibration Mode" >>
                /\ Len(lcd[2]) = 3 /\ lcd[2][1] = "Value: " )
  /\ []( tick.mode = "Monitoring" =>
           /\ tick.drawn <=> (tick.begin \/ tick.writes = 1 \/ tick.select)
           /\ ~tick.drawn => lcd = tick.lcd0 )
  /\ [][ (TickStarts /\ tick'.mode = "Selecting") =>
           lcd' = IF tick'.select
                    THEN << << "Monitoring:" >>,
                            << plantProfiles[selectedPlantIndex' + 1].name >> >>
                    ELSE << << "Plant: ",
                               plantProfiles[selectedPlantIndex + 1].name,
                               " " >>,
                            << "< UP/DOWN >" >> >> ]_vars

\* an iteration of the Monitoring mode found no post cycle due and SELECT
\* not pressed, and left the readings of the last cycle on the display
C18_Witness ==
  /\ pc = "loop" /\ tick.mode = "Monitoring"
  /\ ~tick.due /\ ~tick.select /\ ~tick.drawn
  /\ lcd = tick.lcd0 /\ lcd[2] = << "Ideal soil" >>

\* C19: the selected index changes only in an iteration of the Selecting
\* mode that reads UP or DOWN pressed.  Iterations of the Monitoring mode
\* (also with UP or DOWN held down), post cycles, connectWiFi() and the two
\* changes of mode by SELECT leave it alone: throughout a Monitoring
\* episode it is the index selected when SELECT was read, every cloud write
\* of the episode goes to the channel of that profile, under its name, and
\* the index is the same when the device is back in Selecting.
C19_IndexChangesOnlyInSelecting ==
  /\ [][ selectedPlantIndex' # selectedPlantIndex =>
           /\ Mode = "Selecting" /\ pc = "loop" /\ TickStarts
           /\ tick'.mode = "Selecting" /\ (tick'.up \/ tick'.down) ]_vars
  /\ []( tick.mode = "Monitoring" =>
           /\ tick.chosen \in 0 .. numPlants - 1
           /\ selectedPlantIndex = tick.chosen )
  /\ []( thingSpeak # NoRequest =>
           /\ thingSpeak.channel = plantProfiles[tick.chosen + 1].channelID
           /\ thingSpeak.status[2] = plantProfiles[tick.chosen + 1].name )
  /\ [][ (TickStarts /\ tick'.mode = "Monitoring") =>
           tick'.chosen = selectedPlantIndex ]_vars

\* DOWN and SELECT were read pressed in one iteration of Selecting: the
\* index went to the last profile and Monitoring started; the post cycle
\* wrote to that profile's channel, UP was held down during the iteration,
\* and the index is still the same
C19_Witness ==
  /\ pc = "loop" /\ Mode = "Monitoring" /\ tick.mode = "Monitoring"
  /\ tick.up /\ tick.writes = 1
  /\ tick.chosen = numPlants - 1 /\ selectedPlantIndex = numPlants - 1
  /\ thingSpeak.channel = U32(1111111)

\* millis() - lastConnectionTime as the iteration that starts now computes
\* it: the difference of the two 32-bit values modulo 2^32
GateElapsed == U32Sub(now, LongToULong(lastConnectionTime))

\* C20: the gate is strict.  An iteration of the Monitoring mode starts a
\* post cycle if and only if millis() - lastConnectionTime (modulo 2^32) is
\* greater than 30000; at exactly 30000 it starts none and leaves the timer
\* alone.  The first thing a post cycle does is to set the timer to the
\* clock, before the connect, the sensor read and the write, and the timer
\* keeps that value to the end of the cycle whether the cycle writes to the
\* cloud or not.
C20_GateIsStrict ==
  /\ [][ (TickStarts /\ tick'.mode = "Monitoring") =>
           /\ tick'.elapsed = GateElapsed
           /\ tick'.due <=> U32Gt(GateElapsed, U32(30000))
           /\ GateElapsed = U32(30000) => ~tick'.due
           /\ tick'.due =>
                /\ LongToULong(lastConnectionTime') = now
                /\ pc' \in { "connectWiFi", "readSensors" }
                /\ ~tick'.connect /\ ~tick'.sensors /\ tick'.writes = 0
           /\ ~tick'.due =>
                /\ lastConnectionTime' = lastConnectionTime
                /\ pc' = "checkSelect" ]_vars
  /\ [][ (tick.mode = "Monitoring" /\ pc # "loop") =>
           lastConnectionTime' = lastConnectionTime ]_vars
  /\ []( (tick.mode = "Monitoring" /\ tick.due /\ sinceCycle \in 0 .. 30000) =>
           U32Sub(now, LongToULong(lastConnectionTime)) = U32(sinceCycle) )
  /\ []( (tick.mode = "Monitoring" /\ tick.elapsed = U32(30000)) =>
           /\ ~tick.due /\ ~tick.connect /\ ~tick.sensors /\ tick.writes = 0
           /\ lastConnectionTime = tick.timer0 )

\* an iteration found exactly 30000 ms on the timer and started no post
\* cycle
C20_Witness ==
  /\ pc = "loop" /\ tick.mode = "Monitoring"
  /\ tick.elapsed = U32(30000) /\ ~tick.due /\ ~tick.select
  /\ sinceCycle = 30001 /\ sinceWrite = 30001

\* the clock has wrapped since the timer was set from it: as unsigned
\* values, the clock is now below the timer
Wrapped == U32Gt(LongToULong(lastConnectionTime), now)

\* a post cycle has started after the clock wrapped, and the cycle before it
\* in the episode started before the wrap: as unsigned values, the timer the
\* cycle found is above the one it set
CycleStartedAfterWrap ==
  /\ tick.mode = "Monitoring" /\ tick.due /\ tick.gap # None
  /\ U32Gt(LongToULong(tick.timer0), LongToULong(lastConnectionTime))

\* C21: the gate survives the wrap of the clock.  When the timer was set
\* from the clock by a post cycle of the episode, the difference
\* millis() - lastConnectionTime taken modulo 2^32 is the real time since
\* that cycle started, whether the clock has wrapped past 2^32 in between or
\* not; so the iteration that starts then runs a post cycle if and only if
\* more than 30000 ms of real time have passed: after a wrap a cycle is
\* neither held back nor started early, and a cycle that starts after the
\* wrap starts more than 30000 ms after the one before it.
C21_GateSurvivesWrap ==
  [][ ( /\ TickStarts /\ tick'.mode = "Monitoring"
        /\ sinceCycle # None )
      => /\ sinceCycle <= postingInterval =>
              /\ GateElapsed = U32(sinceCycle)
              /\ ~tick'.due
              /\ lastConnectionTime' = lastConnectionTime
         /\ sinceCycle > postingInterval =>
              /\ U32Gt(GateElapsed, U32(postingInterval))
              /\ tick'.due
              /\ tick'.gap = sinceCycle
              /\ LongToULong(lastConnectionTime') = now
         /\ Wrapped => (tick'.due <=> sinceCycle > postingInterval) ]_vars
  /\ []( CycleStartedAfterWrap =>
           /\ tick.gap > postingInterval
           /\ U32Gt(tick.elapsed, U32(postingInterval)) )

\* a post cycle started one millisecond before the clock wrapped, and the
\* iteration that ran 30000 ms later, after the wrap, started none
C21_Witness ==
  /\ pc = "checkSelect" /\ tick.mode = "Monitoring" /\ ~tick.due
  /\ sinceCycle = postingInterval
  /\ tick.elapsed = U32(postingInterval)
  /\ Wrapped
  /\ LongToULong(lastConnectionTime) = U32Sub(U32(0), U32(1))

===========================================================================
